---- MODULE Spec2Model ----
(***************************************************************************)
(* A model of gslt_manager.py: SteamGSLTManager, which drives a browser    *)
(* over Steam's game-server-token management page.  The browser and the    *)
(* remote site are the environment: every navigation yields a page the     *)
(* environment chooses.  Texts that the code transforms (strip, upper,     *)
(* lower, int) are tuples of one-character strings.                        *)
(***************************************************************************)
EXTENDS Integers, Sequences, FiniteSets, TLC

VARIABLES pc, stack, op, args, env, page, loc, result, ev

vars == <<pc, stack, op, args, env, page, loc, result, ev>>

----------------------------------------------------------------------------
(* Bounds of the model *)

MaxRows == 2        \* body rows of a table in the operation model
MaxForms == 2       \* forms in a row's last cell
MaxTimeout == 4     \* largest timeout passed to ensure_signed_in

(* Program constants *)

DEFAULT_TIMEOUT == 25   \* the wait of self.wait.until, in seconds
GuardWait == 6          \* the wait for the guard-code challenge, in seconds
PollInterval == 2       \* the sleep of the interactive wait, in seconds

----------------------------------------------------------------------------
(* Text: str.strip, str.upper, str.lower, substring test, int() *)

Digits == {"0", "1", "2", "3", "4", "5", "6", "7", "8", "9"}

DigitVal(c) ==
  CASE c = "0" -> 0 [] c = "1" -> 1 [] c = "2" -> 2 [] c = "3" -> 3
    [] c = "4" -> 4 [] c = "5" -> 5 [] c = "6" -> 6 [] c = "7" -> 7
    [] c = "8" -> 8 [] OTHER -> 9

UpperChar(c) ==
  CASE c = "a" -> "A" [] c = "b" -> "B" [] c = "c" -> "C" [] c = "d" -> "D"
    [] c = "g" -> "G" [] c = "i" -> "I" [] c = "l" -> "L" [] c = "n" -> "N"
    [] c = "o" -> "O" [] c = "x" -> "X" [] OTHER -> c

LowerChar(c) ==
  CASE c = "A" -> "a" [] c = "B" -> "b" [] c = "C" -> "c" [] c = "D" -> "d"
    [] c = "G" -> "g" [] c = "I" -> "i" [] c = "L" -> "l" [] c = "N" -> "n"
    [] c = "O" -> "o" [] c = "X" -> "x" [] OTHER -> c

Upper(s) == [i \in 1..Len(s) |-> UpperChar(s[i])]

Lower(s) == [i \in 1..Len(s) |-> LowerChar(s[i])]

RECURSIVE LStrip(_)
LStrip(s) == IF s # <<>> /\ Head(s) = " " THEN LStrip(Tail(s)) ELSE s

RECURSIVE RStrip(_)
RStrip(s) ==
  IF s # <<>> /\ s[Len(s)] = " " THEN RStrip(SubSeq(s, 1, Len(s) - 1)) ELSE s

Strip(s) == RStrip(LStrip(s))

Contains(sub, s) ==
  \E i \in 0..(Len(s) - Len(sub)) : SubSeq(s, i + 1, i + Len(sub)) = sub

\* int(txt) accepts surrounding blanks, one optional sign and decimal digits.
IntBody(s) ==
  LET t == Strip(s)
  IN  IF t # <<>> /\ Head(t) \in {"+", "-"} THEN Tail(t) ELSE t

IsIntText(s) ==
  LET b == IntBody(s) IN b # <<>> /\ \A i \in 1..Len(b) : b[i] \in Digits

RECURSIVE DigitsVal(_)
DigitsVal(b) ==
  IF b = <<>> THEN 0
  ELSE 10 * DigitsVal(SubSeq(b, 1, Len(b) - 1)) + DigitVal(b[Len(b)])

IntVal(s) ==
  LET t == Strip(s)
  IN  IF Head(t) = "-" THEN 0 - DigitsVal(IntBody(s)) ELSE DigitsVal(IntBody(s))

----------------------------------------------------------------------------
(* Values *)

NoneVal == <<"None">>          \* Python's None where a text may be absent
NoField == "absent"            \* a form without an element named "steamid"

Ret(v) == [kind |-> "return", val |-> v]
Raise(e) == [kind |-> "raise", val |-> e]
NoResult == [kind |-> "none", val |-> "none"]

Token(appid, gslt, last_logon, memo, steamid, valid) ==
  [appid |-> appid, gslt |-> gslt, last_logon |-> last_logon, memo |-> memo,
   steamid |-> steamid, valid |-> valid]

----------------------------------------------------------------------------
(* The DOM of the current page.                                            *)
(* A body row is its number of td cells, the texts of cells 0..3, the two  *)
(* strike-through signals of the token cell, and the forms of its last     *)
(* cell.  A form is the mutation endpoint its action names ("other" when   *)
(* it names none) and the value of its hidden "steamid" field.             *)

Form(action, steamid) == [action |-> action, steamid |-> steamid]

Row(n, appid, gslt, logon, memo, sTag, css, forms) ==
  [n |-> n, appid |-> appid, gslt |-> gslt, logon |-> logon, memo |-> memo,
   sTag |-> sTag, css |-> css, forms |-> forms]

MANAGE_URL == [host |-> "steamcommunity.com", path |-> <<"d", "e", "v">>]
LOGIN_URL == [host |-> "store.steampowered.com", path |-> <<"l", "o", "g", "i", "n">>]

\* LOGIN_URL.split("//")[1].split("/")[0]
LoginHost == LOGIN_URL.host

\* loaded: the rows have been queried since the page was loaded.  What the
\* table holds is settled by the site when the manager first queries it.
Page(url, serverList, table, rows, username, authcode) ==
  [url |-> url, serverList |-> serverList, table |-> table, rows |-> rows,
   loaded |-> TRUE, username |-> username, authcode |-> authcode]

Unread(url, serverList, table, username) ==
  [url |-> url, serverList |-> serverList, table |-> table, rows |-> <<>>,
   loaded |-> FALSE, username |-> username, authcode |-> FALSE]

----------------------------------------------------------------------------
(* _cell_not_struck *)

CellNotStruck(row) ==
  IF row.sTag THEN FALSE
  ELSE IF row.css THEN FALSE
  ELSE TRUE

(* _extract_steamid_from_row *)

IsMutationFormResetOnly(f) == f.action = "resetgstoken"

IsMutationForm(f) ==
  f.action = "resetgstoken" \/ f.action = "deletegsaccount" \/ f.action = "updategsmemo"

RECURSIVE ScanForms(_)
ScanForms(forms) ==
  IF forms = <<>> THEN Ret("")
  ELSE LET f == Head(forms)
       IN  IF IsMutationForm(f)
           THEN IF f.steamid = NoField THEN Raise("NoSuchElement")
                ELSE IF f.steamid # "" THEN Ret(f.steamid)
                ELSE ScanForms(Tail(forms))
           ELSE ScanForms(Tail(forms))

ExtractSteamid(row) ==
  IF row.n = 0 THEN Raise("IndexError") ELSE ScanForms(row.forms)

(* _parse_token_table *)

MinCells == 5

LastLogon(txt) == IF Strip(txt) = <<>> THEN NoneVal ELSE Strip(txt)

RECURSIVE ParseRows(_, _)
ParseRows(rows, tokens) ==
  IF rows = <<>> THEN Ret(tokens)
  ELSE LET r == Head(rows)
       IN  IF r.n < MinCells THEN ParseRows(Tail(rows), tokens)
           ELSE LET sid == ExtractSteamid(r)
                IN  IF sid.kind = "raise" THEN sid
                    ELSE IF ~IsIntText(r.appid) THEN ParseRows(Tail(rows), tokens)
                    ELSE ParseRows(Tail(rows),
                           Append(tokens,
                             Token(IntVal(r.appid), Strip(r.gslt), LastLogon(r.logon),
                                   Strip(r.memo), sid.val, CellNotStruck(r))))

ParseTokenTable(p) ==
  IF ~p.serverList THEN Ret(<<>>)
  ELSE IF ~p.table THEN Ret(<<>>)
  ELSE ParseRows(p.rows, <<>>)

(* _has_token_table *)

HasTokenTable(p) == IF ~p.serverList THEN FALSE ELSE p.table

(* _find_row_by_token: the index of the row found, 0 for None *)

RECURSIVE FirstTokenMatch(_, _)
FirstTokenMatch(tokens, gslt) ==
  IF tokens = <<>> THEN FALSE
  ELSE IF Upper(Head(tokens).gslt) = Upper(gslt) THEN TRUE
  ELSE FirstTokenMatch(Tail(tokens), gslt)

RECURSIVE ScanRowsByToken(_, _, _)
ScanRowsByToken(rows, i, gslt) ==
  IF i > Len(rows) THEN Ret(0)
  ELSE IF rows[i].n < 2 THEN Raise("IndexError")
  ELSE IF Upper(Strip(rows[i].gslt)) = Upper(gslt) THEN Ret(i)
  ELSE ScanRowsByToken(rows, i + 1, gslt)

FindRowByToken(p, gslt) ==
  LET parsed == ParseTokenTable(p)
  IN  IF parsed.kind = "raise" THEN parsed
      ELSE IF ~FirstTokenMatch(parsed.val, gslt) THEN Ret(0)
      ELSE ScanRowsByToken(p.rows, 1, gslt)

(* _find_row_by_steamid: the index of the row found, 0 for None *)

RECURSIVE ScanRowsBySteamid(_, _, _)
ScanRowsBySteamid(rows, i, steamid) ==
  IF i > Len(rows) THEN Ret(0)
  ELSE LET sid == ExtractSteamid(rows[i])
       IN  IF sid.kind = "raise" THEN sid
           ELSE IF sid.val = steamid THEN Ret(i)
           ELSE ScanRowsBySteamid(rows, i + 1, steamid)

FindRowBySteamidFirst(p, steamid) ==
  IF ~p.serverList THEN Raise("NoSuchElement")
  ELSE IF ~p.table THEN Raise("NoSuchElement")
  ELSE IF p.rows = <<>> THEN Ret(0)
  ELSE Ret(1)

FindRowBySteamid(p, steamid) ==
  IF ~p.serverList THEN Raise("NoSuchElement")
  ELSE IF ~p.table THEN Raise("NoSuchElement")
  ELSE ScanRowsBySteamid(p.rows, 1, steamid)

\* new_row.find_elements(By.TAG_NAME, "td")[1].text.strip()
TokenCellText(row) ==
  IF row.n < 2 THEN Raise("IndexError") ELSE Ret(Strip(row.gslt))

\* the first form of the last cell whose action contains "resetgstoken"
HasRegenForm(row) == \E i \in 1..Len(row.forms) : row.forms[i].action = "resetgstoken"

----------------------------------------------------------------------------
(* The inputs the environment draws from *)

tAB == <<"A", "B">>
tab == <<"a", "b">>
tCD == <<"C", "D">>
mX == <<"x">>
mO == <<"o">>
a7 == <<"7">>
a4 == <<"4">>
aNeg == <<"-", "7">>
aBad == <<"7", "x">>
dLogon == <<"1", " ", "2">>

SeqsUpTo(S, n) == UNION {[1..k -> S] : k \in 0..n}

Actions == {"resetgstoken", "deletegsaccount", "updategsmemo", "other"}
SteamidValues == {NoField, "", "1", "2"}
Forms == {Form(a, v) : a \in Actions, v \in SteamidValues}
FormSeqs == SeqsUpTo(Forms, MaxForms)

\* the forms Steam renders for the token whose account has steamid v
StdForms(v) == <<Form("resetgstoken", v), Form("updategsmemo", v)>>

\* rows for the pure functions: every combination of cell count, app id text
\* and form list, over a few renderings of the other cells
CellVariants ==
  { <<tAB, <<>>, mX, FALSE, FALSE>>, <<tab, dLogon, mO, TRUE, FALSE>>,
    <<tCD, <<>>, mX, FALSE, TRUE>> }

ParseRowSet ==
  { Row(n, a, c[1], c[2], c[3], c[4], c[5], f) :
      n \in {0, 2, 5, 6}, a \in {a7, aNeg, aBad}, c \in CellVariants, f \in FormSeqs }

\* rows for the operations: tokens of two accounts and two app ids, a revoked
\* token, and rows outside the page contract (header row, short row, app id
\* that is no integer, form without the hidden field or with an empty one,
\* row without forms)
OpRows ==
  { Row(5, a7, tAB, <<>>, mX, FALSE, FALSE, StdForms("1")),
    Row(5, a7, tCD, dLogon, mX, FALSE, FALSE, StdForms("1")),
    Row(5, a7, tCD, <<>>, mO, TRUE, FALSE, StdForms("2")),
    Row(5, a4, tab, <<>>, mX, FALSE, FALSE, <<Form("updategsmemo", "2")>>),
    Row(5, aBad, tAB, <<>>, mX, FALSE, TRUE, StdForms("2")),
    Row(5, a7, tAB, <<>>, mO, FALSE, FALSE, <<Form("resetgstoken", NoField)>>),
    Row(5, a7, tCD, <<>>, mO, FALSE, FALSE, <<>>),
    Row(5, a4, tAB, <<>>, mO, FALSE, FALSE, <<Form("resetgstoken", "")>>),
    Row(0, <<>>, <<>>, <<>>, <<>>, FALSE, FALSE, <<>>) }

OpTables == SeqsUpTo(OpRows, MaxRows)

\* the management page as a signed-in browser shows it: the serverList
\* container holding zero or one table
ManagePages == { Unread(MANAGE_URL, TRUE, t, FALSE) : t \in BOOLEAN }

\* the rows the driver finds when it queries the page
Rendered(p) ==
  IF p.loaded THEN {p}
  ELSE IF p.serverList /\ p.table
  THEN {[p EXCEPT !.rows = r, !.loaded = TRUE] : r \in OpTables}
  ELSE {[p EXCEPT !.loaded = TRUE]}

----------------------------------------------------------------------------
(* The state of a call *)

NoArgs == [appid |-> 0, memo |-> <<>>, gslt |-> <<>>, interactive |-> FALSE, timeout |-> 0]
NoLoc == [before |-> {}, steamid |-> ""]

\* what the current call has done so far: navigations to MANAGE_URL, calls of
\* _has_token_table, login flows started, forms submitted, what the loads
\* showed, and the clock of the interactive wait
NoEv == [navs |-> 0, checks |-> 0, logins |-> 0, submitted |-> FALSE,
         sawList |-> FALSE, guardNeeded |-> FALSE, authed0 |-> FALSE,
         table0 |-> FALSE, reensured |-> FALSE, lookupHit |-> FALSE,
         polls |-> 0, pollUrl |-> MANAGE_URL, pollChecked |-> FALSE,
         pollTable |-> FALSE, clock |-> 0]

NoEnv == [authed |-> TRUE, hasCreds |-> FALSE, guard |-> "none"]

----------------------------------------------------------------------------
(* The environment: the remote site and the configuration of the manager.  *)
(* env.authed: the browser's session is signed in.  env.hasCreds:          *)
(* STEAM_USER and STEAM_PASS are set.  env.guard: get_guard_code is not    *)
(* given ("none"), returns "" ("empty") or returns a code ("code").        *)

LoginPaths == {<<"l", "o", "g", "i", "n">>, <<"L", "o", "g", "i", "n">>}

HOME_URL == [host |-> "store.steampowered.com", path |-> <<>>]

\* where a browser that is not signed in ends up: Steam's login page on the
\* store host or on the community host, with or without the username input
LoginPages ==
  { Unread([host |-> h, path |-> q], FALSE, FALSE, u) :
      h \in {"store.steampowered.com", "steamcommunity.com"},
      q \in LoginPaths, u \in BOOLEAN }

\* driver.get(MANAGE_URL)
LoadManage(e) == IF e.authed THEN ManagePages ELSE LoginPages

\* driver.get(LOGIN_URL): a signed-in browser is sent on to the store
LoadLogin(e) ==
  IF e.authed THEN {Unread(HOME_URL, FALSE, FALSE, FALSE)}
  ELSE {p \in LoginPages : p.url.host = LOGIN_URL.host}

----------------------------------------------------------------------------
(* Control: pc is the statement about to run, stack the labels to return   *)
(* to, result the outcome of the public call.                              *)

Return(v) ==
  /\ result' = Ret(v)
  /\ pc' = "done"
  /\ stack' = <<>>

Fail(e) ==
  /\ result' = Raise(e)
  /\ pc' = "done"
  /\ stack' = <<>>

\* return from _ensure_manage_page or _login_flow to the caller
Resume ==
  /\ pc' = Head(stack)
  /\ stack' = Tail(stack)
  /\ UNCHANGED result

\* a public call starts when the manager is idle
Begin(name, a) ==
  /\ pc = "idle"
  /\ op' = name
  /\ args' = a
  /\ loc' = NoLoc
  /\ UNCHANGED env

Started == [NoEv EXCEPT !.authed0 = env.authed]

Navigated(v, p) == [v EXCEPT !.navs = @ + 1, !.sawList = @ \/ p.serverList]

\* LOGIN_URL.split("//")[1].split("/")[0] in self.driver.current_url
BouncedToLogin(p) == p.url.host = LoginHost

\* lines 209-213: load the management page and start the login flow when the
\* browser was sent to the login host; v is the record of the call so far,
\* rest the labels to return to
GetManagePage(v, rest) ==
  \E p \in LoadManage(env) :
     /\ page' = p
     /\ ev' = Navigated(v, p)
     /\ IF BouncedToLogin(p)
        THEN pc' = "lf_wait" /\ stack' = <<"emp_reget">> \o rest
        ELSE pc' = "emp_wait" /\ stack' = rest

AppIds == {7, 4}
Memos == {mX, mO}
Gslts == {tAB, tab, tCD}

(* the public operations, lines 133-204 *)

CallCreateGslt ==
  \E a \in AppIds, m \in Memos :
    /\ Begin("create_gslt", [NoArgs EXCEPT !.appid = a, !.memo = m])
    /\ GetManagePage(Started, <<"emp_get", "cg_before">>)
    /\ result' = NoResult

CallGetAllTokens ==
  \E a \in AppIds \cup {0} :
    /\ Begin("get_all_tokens", [NoArgs EXCEPT !.appid = a])
    /\ GetManagePage(Started, <<"gat_parse">>)
    /\ result' = NoResult

CallIsTokenValid ==
  \E g \in Gslts :
    /\ Begin("is_token_valid", [NoArgs EXCEPT !.gslt = g])
    /\ GetManagePage(Started, <<"itv_scan">>)
    /\ result' = NoResult

CallRegenerateToken ==
  \E g \in Gslts :
    /\ Begin("regenerate_token", [NoArgs EXCEPT !.gslt = g])
    /\ GetManagePage(Started, <<"rt_find">>)
    /\ result' = NoResult

\* the outcome goes to the caller; the browser stays where it is
Finish ==
  /\ pc = "done"
  /\ pc' = "idle"
  /\ op' = "none"
  /\ args' = NoArgs
  /\ loc' = NoLoc
  /\ result' = NoResult
  /\ ev' = NoEv
  /\ UNCHANGED <<stack, env, page>>

----------------------------------------------------------------------------
\* _ensure_manage_page, lines 208-214, entered from the second statement on
EmpGet ==
  /\ pc = "emp_get"
  /\ GetManagePage(ev, stack)
  /\ UNCHANGED <<op, args, env, loc, result>>

EmpReget ==
  /\ pc = "emp_reget"
  /\ \E p \in LoadManage(env) :
       /\ page' = p
       /\ ev' = Navigated(ev, p)
  /\ pc' = "emp_wait"
  /\ UNCHANGED <<stack, op, args, env, loc, result>>

WaitAlwaysPasses(p) == TRUE

\* self.wait.until(presence_of_element_located((By.ID, "serverList")))
WaitForServerList(p) == p.serverList

EmpWait ==
  /\ pc = "emp_wait"
  /\ IF WaitForServerList(page)
     THEN Resume
     ELSE Fail("PageNotReady")
  /\ UNCHANGED <<op, args, env, page, loc, ev>>

(* _login_flow, lines 216-254 *)

\* the page after the credentials are submitted: the guard-code challenge
\* (an input with id "authcode") shows or not
AfterSubmit(p) == {[p EXCEPT !.username = FALSE, !.authcode = c] : c \in BOOLEAN}

LoginStart ==
  /\ pc = "lf_wait"
  /\ ev' = [ev EXCEPT !.logins = @ + 1]
  /\ IF ~page.username
     THEN Resume /\ UNCHANGED <<page, env>>
     ELSE IF ~env.hasCreds
     THEN Fail("CredentialsMissing") /\ UNCHANGED <<page, env>>
     ELSE /\ \E p \in AfterSubmit(page) :
               /\ page' = p
               /\ \E ok \in (IF p.authcode THEN {FALSE} ELSE BOOLEAN) :
                    env' = [env EXCEPT !.authed = ok]
          /\ pc' = "lf_guard"
          /\ UNCHANGED <<stack, result>>
  /\ UNCHANGED <<op, args, loc>>

\* lines 240-254: every exception raised in the try block, the one of
\* line 246 included, is caught by "except Exception: pass"
CaughtInGuardBlock(e) == TRUE

LoginGuard ==
  /\ pc = "lf_guard"
  /\ IF ~page.authcode
     THEN Resume /\ UNCHANGED <<page, env, ev>>
     ELSE IF env.guard \in {"none", "empty"}
     THEN /\ ev' = [ev EXCEPT !.guardNeeded = TRUE]
          /\ IF CaughtInGuardBlock("GuardCodeRequired")
             THEN Resume
             ELSE Fail("GuardCodeRequired")
          /\ UNCHANGED <<page, env>>
     ELSE /\ \E ok \in BOOLEAN :
               /\ env' = [env EXCEPT !.authed = ok]
               /\ page' = [page EXCEPT !.authcode = ~ok]
          /\ Resume
          /\ UNCHANGED ev
  /\ UNCHANGED <<op, args, loc>>

(* ensure_signed_in, lines 95-128 *)

Checked(v, p) == [Navigated(v, p) EXCEPT !.checks = @ + 1]

\* "login" not in self.driver.current_url.lower()
ShowsLoginCaseSensitive(url) == Contains(<<"l", "o", "g", "i", "n">>, url.path)

ShowsLogin(url) == Contains(<<"l", "o", "g", "i", "n">>, Lower(url.path))

SignedInInverted(p) == ~HasTokenTable(p)

\* the test of lines 102, 109 and 124
SignedIn(p) == HasTokenTable(p)

\* lines 101-114, from the call on
CallEnsureSignedIn ==
  \E i \in BOOLEAN, t \in 0..MaxTimeout :
    /\ Begin("ensure_signed_in", [NoArgs EXCEPT !.interactive = i, !.timeout = t])
    /\ \E p \in LoadManage(env) :
         /\ page' = p
         /\ ev' = [Checked(Started, p) EXCEPT !.table0 = p.serverList /\ p.table]
         /\ IF SignedIn(p) THEN Return("None")
            ELSE IF ~i /\ env.hasCreds
            THEN pc' = "lf_wait" /\ stack' = <<"esi_reget">> /\ result' = NoResult
            ELSE IF ~i THEN Fail("NotSignedIn")
            ELSE pc' = "esi_login" /\ stack' = <<>> /\ result' = NoResult

EsiReget ==
  /\ pc = "esi_reget"
  /\ \E p \in LoadManage(env) :
       /\ page' = p
       /\ ev' = Checked(ev, p)
       /\ IF SignedIn(p) THEN Return("None")
          ELSE IF ~args.interactive THEN Fail("NotSignedIn")
          ELSE pc' = "esi_login" /\ UNCHANGED <<stack, result>>
  /\ UNCHANGED <<op, args, env, loc>>

\* line 117-118: open the login page and take the start time (clock 0)
EsiLogin ==
  /\ pc = "esi_login"
  /\ page' \in LoadLogin(env)
  /\ ev' = [ev EXCEPT !.clock = 0]
  /\ pc' = "esi_loop"
  /\ UNCHANGED <<stack, op, args, env, loc, result>>

\* what the browser shows after the sleep: the user may have completed the
\* login in the meantime, which takes the browser off the login page
AfterSleep(e, p) ==
  {<<e, p>>} \cup
  (IF e.authed THEN {}
   ELSE {<<[e EXCEPT !.authed = TRUE], Unread(HOME_URL, FALSE, FALSE, FALSE)>>})

\* time.time() - start < timeout
TimeLeft(clock, timeout) == clock < timeout

\* lines 119-120 and 128; the clock advances by the sleep and by the time
\* the previous iteration took
EsiLoop ==
  /\ pc = "esi_loop"
  /\ IF TimeLeft(ev.clock, args.timeout)
     THEN /\ \E x \in AfterSleep(env, page), d \in {0, 1} :
               /\ env' = x[1]
               /\ page' = x[2]
               /\ ev' = [ev EXCEPT !.clock = @ + PollInterval + d]
          /\ pc' = "esi_poll"
          /\ UNCHANGED <<stack, result>>
     ELSE /\ Fail("InteractiveLoginTimeout")
          /\ UNCHANGED <<env, page, ev>>
  /\ UNCHANGED <<op, args, loc>>

\* lines 122-126
EsiPoll ==
  /\ pc = "esi_poll"
  /\ IF ~ShowsLogin(page.url)
     THEN \E p \in LoadManage(env) :
            /\ page' = p
            /\ ev' = [Checked(ev, p) EXCEPT !.polls = @ + 1, !.pollUrl = page.url,
                                        !.pollChecked = TRUE,
                                        !.pollTable = p.serverList /\ p.table]
            /\ IF SignedIn(p) THEN Return("None")
               ELSE pc' = "esi_loop" /\ UNCHANGED <<stack, result>>
     ELSE /\ ev' = [ev EXCEPT !.polls = @ + 1, !.pollUrl = page.url,
                              !.pollChecked = FALSE, !.pollTable = FALSE]
          /\ pc' = "esi_loop"
          /\ UNCHANGED <<page, stack, result>>
  /\ UNCHANGED <<op, args, env, loc>>

----------------------------------------------------------------------------
(* get_all_tokens, lines 150-156 (after its _ensure_manage_page) *)

\* int(appid) of an integer argument
IntOf(appid) == appid

FilterAppid(tokens, appid) == SelectSeq(tokens, LAMBDA t : t.appid = IntOf(appid))

GatParse ==
  /\ pc = "gat_parse"
  /\ \E pg \in Rendered(page) :
       /\ page' = pg
       /\ LET parsed == ParseTokenTable(pg)
          IN  IF parsed.kind = "raise" THEN Fail(parsed.val)
              ELSE IF args.appid = 0 THEN Return(parsed.val)
              ELSE Return(FilterAppid(parsed.val, args.appid))
  /\ UNCHANGED <<op, args, env, loc, ev>>

(* is_token_valid, lines 158-165 *)

RECURSIVE ScanValid(_, _)
ScanValid(tokens, gslt) ==
  IF tokens = <<>> THEN FALSE
  ELSE IF Upper(Head(tokens).gslt) = Upper(gslt) THEN Head(tokens).valid
  ELSE ScanValid(Tail(tokens), gslt)

ItvScan ==
  /\ pc = "itv_scan"
  /\ \E pg \in Rendered(page) :
       /\ page' = pg
       /\ LET parsed == ParseTokenTable(pg)
          IN  IF parsed.kind = "raise" THEN Fail(parsed.val)
              ELSE Return(ScanValid(parsed.val, args.gslt))
  /\ UNCHANGED <<op, args, env, loc, ev>>

(* create_gslt, lines 133-148 *)

\* the session may end while the manager sleeps
AfterThrottle(e) == {e, [e EXCEPT !.authed = FALSE]}

TokenSet(tokens) == {tokens[i].gslt : i \in 1..Len(tokens)}

\* lines 136-138: snapshot, _fill_create_form, sleep
CgBefore ==
  /\ pc = "cg_before"
  /\ \E pg \in Rendered(page) :
       /\ page' = pg
       /\ LET parsed == ParseTokenTable(pg)
          IN  IF parsed.kind = "raise"
              THEN Fail(parsed.val) /\ UNCHANGED <<loc, ev, env>>
              ELSE /\ loc' = [loc EXCEPT !.before = TokenSet(parsed.val)]
                   /\ ev' = [ev EXCEPT !.submitted = TRUE]
                   /\ env' \in AfterThrottle(env)
                   /\ pc' = "emp_get"
                   /\ stack' = <<"emp_get", "cg_after">>
                   /\ UNCHANGED result
  /\ UNCHANGED <<op, args>>

RECURSIVE FirstNew(_, _, _)
FirstNew(after, before, memo) ==
  IF after = <<>> THEN <<>>
  ELSE IF Head(after).gslt \notin before /\ Head(after).memo = memo THEN <<Head(after)>>
  ELSE FirstNew(Tail(after), before, memo)

SelectCreatedLast(after, before, memo) ==
  IF after # <<>> THEN Ret(after[Len(after)].gslt) ELSE Raise("CreateFailed")

\* lines 142-148
SelectCreated(after, before, memo) ==
  LET new == FirstNew(after, before, memo)
  IN  IF new # <<>> THEN Ret(new[1].gslt)
      ELSE IF after # <<>> THEN Ret(after[Len(after)].gslt)
      ELSE Raise("CreateFailed")

CgAfter ==
  /\ pc = "cg_after"
  /\ \E pg \in Rendered(page) :
       /\ page' = pg
       /\ LET parsed == ParseTokenTable(pg)
          IN  IF parsed.kind = "raise" THEN Fail(parsed.val)
              ELSE LET r == SelectCreated(FilterAppid(parsed.val, args.appid),
                                          loc.before, args.memo)
                   IN  result' = r /\ pc' = "done" /\ stack' = <<>>
  /\ UNCHANGED <<op, args, env, loc, ev>>

(* regenerate_token, lines 167-204 *)

\* lines 173-190
RtFind ==
  /\ pc = "rt_find"
  /\ \E pg \in Rendered(page) :
       /\ page' = pg
       /\ LET found == FindRowByToken(pg, args.gslt)
          IN  IF found.kind = "raise"
              THEN Fail(found.val) /\ UNCHANGED <<loc, ev, env>>
              ELSE IF found.val = 0
              THEN Fail("TokenNotFound") /\ UNCHANGED <<loc, ev, env>>
              ELSE LET row == pg.rows[found.val]
                       sid == ExtractSteamid(row)
                   IN  IF sid.kind = "raise"
                       THEN Fail(sid.val) /\ UNCHANGED <<loc, ev, env>>
                       ELSE IF ~HasRegenForm(row)
                       THEN Fail("RegenFormNotFound") /\ UNCHANGED <<loc, ev, env>>
                       ELSE /\ loc' = [loc EXCEPT !.steamid = sid.val]
                            /\ ev' = [ev EXCEPT !.submitted = TRUE]
                            /\ env' \in AfterThrottle(env)
                            /\ pc' = "emp_get"
                            /\ stack' = <<"rt_lookup">>
                            /\ UNCHANGED result
  /\ UNCHANGED <<op, args>>

\* some row of the page carries the steamid in the hidden field of one of its
\* mutation forms
RowCarries(p, steamid) ==
  p.serverList /\ p.table /\
  \E i \in 1..Len(p.rows) :
     p.rows[i].n > 0 /\
     \E k \in 1..Len(p.rows[i].forms) :
        /\ p.rows[i].forms[k].action \in {"resetgstoken", "deletegsaccount", "updategsmemo"}
        /\ p.rows[i].forms[k].steamid = steamid

\* lines 194-195 and 203-204
RtLookup ==
  /\ pc = "rt_lookup"
  /\ \E pg \in Rendered(page) :
       /\ page' = pg
       /\ ev' = [ev EXCEPT !.reensured = TRUE, !.lookupHit = RowCarries(pg, loc.steamid)]
       /\ LET found == FindRowBySteamid(pg, loc.steamid)
          IN  IF found.kind = "raise" THEN Fail(found.val)
              ELSE IF found.val = 0
              THEN pc' = "rt_settle" /\ UNCHANGED <<stack, result>>
              ELSE LET txt == TokenCellText(pg.rows[found.val])
                   IN  IF txt.kind = "raise" THEN Fail(txt.val) ELSE Return(txt.val)
  /\ UNCHANGED <<op, args, env, loc>>

\* line 197: the page may go on rendering while the manager sleeps
RtSettle ==
  /\ pc = "rt_settle"
  /\ page' \in ManagePages
  /\ pc' = "rt_reparse"
  /\ UNCHANGED <<stack, op, args, env, loc, result, ev>>

RECURSIVE FirstBySteamid(_, _)
FirstBySteamid(tokens, steamid) ==
  IF tokens = <<>> THEN Raise("PostRegenRowMissing")
  ELSE IF Head(tokens).steamid = steamid THEN Ret(Head(tokens).gslt)
  ELSE FirstBySteamid(Tail(tokens), steamid)

\* lines 198-202
RtReparse ==
  /\ pc = "rt_reparse"
  /\ \E pg \in Rendered(page) :
       /\ page' = pg
       /\ LET parsed == ParseTokenTable(pg)
          IN  IF parsed.kind = "raise" THEN Fail(parsed.val)
              ELSE LET r == FirstBySteamid(parsed.val, loc.steamid)
                   IN  result' = r /\ pc' = "done" /\ stack' = <<>>
  /\ UNCHANGED <<op, args, env, loc, ev>>

----------------------------------------------------------------------------
(* The manager: a fresh browser, then one public call after another *)

BlankPage == Unread([host |-> "", path |-> <<>>], FALSE, FALSE, FALSE)

Init ==
  /\ pc = "idle"
  /\ stack = <<>>
  /\ op = "none"
  /\ args = NoArgs
  /\ env \in [authed : BOOLEAN, hasCreds : BOOLEAN, guard : {"none", "empty", "code"}]
  /\ page = BlankPage
  /\ loc = NoLoc
  /\ result = NoResult
  /\ ev = NoEv

Next ==
  \/ CallCreateGslt
  \/ CallGetAllTokens
  \/ CallIsTokenValid
  \/ CallRegenerateToken
  \/ CallEnsureSignedIn
  \/ Finish
  \/ EmpGet
  \/ EmpReget
  \/ EmpWait
  \/ LoginStart
  \/ LoginGuard
  \/ EsiReget
  \/ EsiLogin
  \/ EsiLoop
  \/ EsiPoll
  \/ GatParse
  \/ ItvScan
  \/ CgBefore
  \/ CgAfter
  \/ RtFind
  \/ RtLookup
  \/ RtSettle
  \/ RtReparse

Spec == Init /\ [][Next]_vars

\* the manager used for ensure_signed_in alone; the calls are sequential and
\* blocking, so a call that can take a step takes it
NextEsi ==
  \/ CallEnsureSignedIn
  \/ Finish
  \/ LoginStart
  \/ LoginGuard
  \/ EsiReget
  \/ EsiLogin
  \/ EsiLoop
  \/ EsiPoll

FairEsi == Init /\ [][NextEsi]_vars /\ WF_vars(NextEsi)

----------------------------------------------------------------------------
(* The pure functions applied to every row and table of the bounded sets *)

ParsePages ==
  { Page(MANAGE_URL, TRUE, TRUE, <<r>>, FALSE, FALSE) : r \in ParseRowSet }
    \cup { Page(MANAGE_URL, TRUE, TRUE, rows, FALSE, FALSE) : rows \in OpTables }
    \cup { Page(MANAGE_URL, s, FALSE, <<>>, FALSE, FALSE) : s \in BOOLEAN }

InitParse ==
  /\ pc = "fn"
  /\ stack = <<>>
  /\ op = "none"
  /\ args = NoArgs
  /\ env = NoEnv
  /\ page \in ParsePages
  /\ loc = NoLoc
  /\ result = NoResult
  /\ ev = NoEv

ParseCall ==
  /\ pc = "fn"
  /\ op' = "_parse_token_table"
  /\ result' = ParseTokenTable(page)
  /\ pc' = "fn_done"
  /\ UNCHANGED <<stack, args, env, page, loc, ev>>

ExtractCall ==
  /\ pc = "fn"
  /\ page.rows # <<>>
  /\ op' = "_extract_steamid_from_row"
  /\ result' = ExtractSteamid(page.rows[1])
  /\ pc' = "fn_done"
  /\ UNCHANGED <<stack, args, env, page, loc, ev>>

NextParse == ParseCall \/ ExtractCall

SpecParse == InitParse /\ [][NextParse]_vars

----------------------------------------------------------------------------
(* Claims about the pure functions (SpecParse) *)

Endpoints == {"resetgstoken", "deletegsaccount", "updategsmemo"}

Min(S) == CHOOSE x \in S : \A y \in S : x <= y

ExtractDone == pc = "fn_done" /\ op = "_extract_steamid_from_row"
ParseDone == pc = "fn_done" /\ op = "_parse_token_table"

MatchingForms(row) == {i \in 1..Len(row.forms) : row.forms[i].action \in Endpoints}

RECURSIVE ExpectedRecords(_)
ExpectedRecords(rows) ==
  IF rows = <<>> THEN <<>>
  ELSE LET r == Head(rows)
       IN  IF r.n >= 5 /\ IsIntText(r.appid)
           THEN <<[appid |-> IntVal(r.appid), gslt |-> r.gslt,
                   last_logon |-> IF r.logon = <<>> THEN NoneVal ELSE r.logon,
                   memo |-> r.memo, valid |-> ~(r.sTag \/ r.css)]>>
                  \o ExpectedRecords(Tail(rows))
           ELSE ExpectedRecords(Tail(rows))

Projected(tokens) ==
  [i \in 1..Len(tokens) |->
     [appid |-> tokens[i].appid, gslt |-> tokens[i].gslt,
      last_logon |-> tokens[i].last_logon, memo |-> tokens[i].memo,
      valid |-> tokens[i].valid]]

\* C6: for any table the parse returns, in table order, exactly one record
\* for each body row with at least 5 cells and an integer app id, carrying
\* the row's appid, token text, memo, last-logon (absent when empty) and
\* validity flag; every other row is dropped and no row makes the parse raise.
C6_ParseNeverRaises ==
  (ParseDone /\ page.serverList /\ page.table) =>
    /\ result.kind = "return"
    /\ Projected(result.val) = ExpectedRecords(page.rows)

\* what is left of C6 on the tables where the parse returns
C6_RecordsWhenReturned ==
  (ParseDone /\ page.serverList /\ page.table /\ result.kind = "return") =>
    Projected(result.val) = ExpectedRecords(page.rows)

----------------------------------------------------------------------------
(* Claims about the operations (Spec) *)

Done(name) == pc = "done" /\ op = name

Returned(name) == Done(name) /\ result.kind = "return"

DataOps == {"create_gslt", "regenerate_token", "get_all_tokens", "is_token_valid"}

Max(S) == CHOOSE x \in S : \A y \in S : x >= y

\* the records of the page the call ended on
Records == ParseTokenTable(page).val

\* C1 as stated: when create_gslt returns a token, it was not among the
\* tokens on the page before the call, and a record carrying it has the
\* requested memo.
C1_ReturnedIsNewWithMemo ==
  Returned("create_gslt") =>
    /\ result.val \notin loc.before
    /\ \E i \in 1..Len(Records) :
         Records[i].gslt = result.val /\ Records[i].memo = args.memo

\* C1 amended: the token returned is that of the first record of the
\* requested appid that is new and has the requested memo; when the reloaded
\* table has no such record, it is the token of the last record of the
\* requested appid, whatever its memo and whether or not it is new.
C1_NewOrLastOfAppid ==
  Returned("create_gslt") =>
    LET same == {i \in 1..Len(Records) : Records[i].appid = args.appid}
        new == {i \in same : Records[i].gslt \notin loc.before
                               /\ Records[i].memo = args.memo}
    IN  /\ same # {}
        /\ result.val = IF new # {} THEN Records[Min(new)].gslt
                        ELSE Records[Max(same)].gslt

C1_Witness ==
  /\ Returned("create_gslt")
  /\ result.val \notin loc.before
  /\ Len(Records) = 2
  /\ Records[1].gslt = result.val /\ Records[1].memo = args.memo
  /\ Records[2].appid = args.appid /\ Records[2].gslt # result.val

\* the steamId of a row: the value the scan of its forms stops on
SteamIdOf(row) ==
  LET stop == {k \in 1..Len(row.forms) :
                 row.forms[k].action \in Endpoints /\ row.forms[k].steamid # ""}
  IN  IF row.n = 0 THEN NoField
      ELSE IF stop = {} THEN ""
      ELSE row.forms[Min(stop)].steamid

RowShows(steamid, token) ==
  \E i \in 1..Len(page.rows) :
     /\ page.rows[i].n >= 2
     /\ SteamIdOf(page.rows[i]) = steamid
     /\ page.rows[i].gslt = token

C3_GuardErrorReachesCaller ==
  (pc = "done" /\ ev.guardNeeded) => result = Raise("GuardCodeRequired")

\* C4 as stated: when no load of the management page shows the serverList
\* container, every data operation fails with PageNotReady and has submitted
\* no form.
C4_AlwaysPageNotReady ==
  (pc = "done" /\ op \in DataOps /\ ~ev.sawList) =>
    result = Raise("PageNotReady") /\ ~ev.submitted

\* C4 amended: when no load of the management page shows the serverList
\* container, every data operation fails and has submitted no form; the
\* failure is PageNotReady, except that it is CredentialsMissing when the
\* browser was sent to the login page of the login host and STEAM_USER or
\* STEAM_PASS is not set.
C4_FailsWithoutMutation ==
  (pc = "done" /\ op \in DataOps /\ ~ev.sawList) =>
    /\ ~ev.submitted
    /\ \/ result = Raise("PageNotReady")
       \/ /\ result = Raise("CredentialsMissing")
          /\ page.url.host = LOGIN_URL.host /\ page.username /\ ~env.hasCreds

C4_Witness ==
  /\ pc = "done" /\ op = "create_gslt"
  /\ ~ev.sawList /\ ev.navs = 2 /\ ev.logins = 1
  /\ result = Raise("PageNotReady")

\* C5: is_token_valid(g) returns false, without raising, when no row of the
\* table has the token g (compared without regard to case).
C5_AbsentReturnsFalse ==
  (Done("is_token_valid") /\ page.serverList /\ page.table
     /\ \A i \in 1..Len(page.rows) : Upper(page.rows[i].gslt) # Upper(args.gslt))
    => result = Ret(FALSE)

\* what is left of C5 when the parse returns: the flag of the first record
\* with the token, false when there is none
C5_FlagWhenParsed ==
  Returned("is_token_valid") =>
    LET m == {i \in 1..Len(Records) : Upper(Records[i].gslt) = Upper(args.gslt)}
    IN  result.val = IF m = {} THEN FALSE ELSE Records[Min(m)].valid

\* C7 as stated: whenever the browser is signed in, whatever number of tokens
\* the account holds, ensure_signed_in returns after one navigation and one
\* presence check and starts no login flow.
C7_NoOpWhenAuthenticated ==
  (Done("ensure_signed_in") /\ ev.authed0) =>
    /\ result = Ret("None")
    /\ ev.navs = 1 /\ ev.checks = 1 /\ ev.logins = 0

\* C7 amended: whenever the browser is signed in and the management page it
\* loads shows the server-list table, ensure_signed_in returns after one
\* navigation and one presence check and starts no login flow; a signed-in
\* account whose page shows no table is treated as not signed in.
C7_NoOpWhenTableShown ==
  (Done("ensure_signed_in") /\ ev.authed0 /\ ev.table0) =>
    /\ result = Ret("None")
    /\ ev.navs = 1 /\ ev.checks = 1 /\ ev.logins = 0

C7_Witness ==
  /\ Done("ensure_signed_in") /\ ev.authed0 /\ ev.table0
  /\ result = Ret("None") /\ ev.navs = 1

AllRowsWellFormed ==
  \A i \in 1..Len(page.rows) : SteamIdOf(page.rows[i]) # NoField

\* C10: after the reset form is submitted and the page re-ensured, if no row
\* carries the captured steamId, neither on the immediate lookup nor on the
\* re-parse, regenerate_token fails with PostRegenRowMissing.
C10_MissingRowFailsPostRegen ==
  (Done("regenerate_token") /\ ev.reensured /\ ~ev.lookupHit
     /\ ~RowCarries(page, loc.steamid) /\ AllRowsWellFormed)
    => result = Raise("PostRegenRowMissing")

\* what is left of C10 when the reloaded page has a table
C10_WhenTablePresent ==
  (Done("regenerate_token") /\ ev.reensured /\ ~ev.lookupHit /\ page.table
     /\ ~RowCarries(page, loc.steamid) /\ AllRowsWellFormed)
    => result = Raise("PostRegenRowMissing")

----------------------------------------------------------------------------
(* Claims about the interactive wait (FairEsi) *)

InteractiveDone == Done("ensure_signed_in") /\ args.interactive

InInteractiveWait ==
  op = "ensure_signed_in" /\ pc \in {"esi_login", "esi_loop", "esi_poll"}

\* the last poll found the browser off the login page and the re-loaded
\* management page showing the table
LastPollSucceeded ==
  /\ ev.polls >= 1
  /\ ev.pollChecked /\ ev.pollTable
  /\ ev.pollUrl.path \notin LoginPaths

\* C8 as stated: ensure_signed_in(interactive=True, timeout) returns only
\* after a poll on which the location no longer contains "login" and the
\* re-loaded management page shows the table.
C8_ReturnsOnlyAfterPoll ==
  (InteractiveDone /\ result.kind = "return") => LastPollSucceeded

\* C8 amended: ensure_signed_in(interactive=True, timeout) always terminates,
\* with one of three outcomes: it returns at once, without opening the login
\* page, when the first load of the management page shows the table; it
\* returns after a poll on which the location no longer contains "login" and
\* the re-loaded management page shows the table; otherwise, once timeout has
\* elapsed, it fails with InteractiveLoginTimeout.  The management page is
\* never re-checked on a poll where the location still shows "login".
C8_InteractiveTerminates ==
  /\ [](InteractiveDone =>
          \/ result = Ret("None") /\ ev.polls = 0 /\ ev.table0 /\ ev.navs = 1
          \/ result = Ret("None") /\ ~ev.table0 /\ LastPollSucceeded
          \/ /\ result = Raise("InteractiveLoginTimeout")
             /\ ~ev.table0
             /\ ev.clock >= args.timeout)
  /\ [](ev.pollChecked => ev.pollUrl.path \notin LoginPaths)
  /\ (InInteractiveWait ~> pc = "done")

C8_Witness ==
  /\ InteractiveDone
  /\ result = Ret("None")
  /\ ev.polls = 2
  /\ LastPollSucceeded
  /\ ev.clock >= args.timeout

====
